---- MODULE Spec2Model ----
(***************************************************************************)
(* Model of the transaction dashboard script src/Graphs.py.  One run of    *)
(* the script is a straight line of steps (file upload, read_csv, sidebar  *)
(* widgets, date guard, process_data behind st.cache_data, apply_filters,  *)
(* the metric row, the chart tabs); Streamlit re-executes the script from  *)
(* the top on every interaction, keeping only the st.cache_data cache.     *)
(*                                                                         *)
(* Text is modelled as sequences of one-character strings so that          *)
(* pd.to_datetime and strftime are real conversions.  pd.to_datetime is    *)
(* modelled element by element on the ISO forms "YYYY-MM-DD" and           *)
(* "YYYY-MM-DD HH:MM"; anything else is coerced to NaT.                    *)
(***************************************************************************)
EXTENDS Integers, Sequences, FiniteSets, TLC

\* Largest number of data rows in an uploaded file.
MaxRows == 3

----------------------------------------------------------------------------
(* Text, dates and timestamps                                              *)

DigitVal ==
  [c \in {"0", "1", "2", "3", "4", "5", "6", "7", "8", "9"} |->
     CASE c = "0" -> 0 [] c = "1" -> 1 [] c = "2" -> 2 [] c = "3" -> 3
       [] c = "4" -> 4 [] c = "5" -> 5 [] c = "6" -> 6 [] c = "7" -> 7
       [] c = "8" -> 8 [] c = "9" -> 9]

DigitChar == <<"0", "1", "2", "3", "4", "5", "6", "7", "8", "9">>

\* Code points of the characters a period key is made of.
CharCode(c) == IF c = "-" THEN 45 ELSE 48 + DigitVal[c]

IsDigits(s, i, j) == \A k \in i..j : s[k] \in DOMAIN DigitVal

RECURSIVE Num(_, _, _)
Num(s, i, j) == IF j < i THEN 0 ELSE 10 * Num(s, i, j - 1) + DigitVal[s[j]]

IsLeap(y) == (y % 4 = 0 /\ y % 100 # 0) \/ y % 400 = 0

DaysIn(y, m) ==
  IF m = 2 THEN (IF IsLeap(y) THEN 29 ELSE 28)
  ELSE IF m \in {4, 6, 9, 11} THEN 30 ELSE 31

NaT == [nat |-> TRUE, y |-> 0, m |-> 0, d |-> 0, hh |-> 0, mi |-> 0]

Timestamp(y, m, d, hh, mi) ==
  [nat |-> FALSE, y |-> y, m |-> m, d |-> d, hh |-> hh, mi |-> mi]

\* The shape of an ISO date, with or without a time of day.
IsoShape(s) ==
  /\ Len(s) \in {10, 16}
  /\ IsDigits(s, 1, 4) /\ s[5] = "-" /\ IsDigits(s, 6, 7) /\ s[8] = "-"
  /\ IsDigits(s, 9, 10)
  /\ Len(s) = 16 => /\ s[11] = " " /\ IsDigits(s, 12, 13)
                    /\ s[14] = ":" /\ IsDigits(s, 15, 16)

\* pd.to_datetime(text, errors='coerce') of one cell: a timestamp, or NaT
\* when the text is no date.
ToDatetime(s) ==
  IF ~IsoShape(s) THEN NaT
  ELSE LET y  == Num(s, 1, 4)
           m  == Num(s, 6, 7)
           d  == Num(s, 9, 10)
           hh == IF Len(s) = 16 THEN Num(s, 12, 13) ELSE 0
           mi == IF Len(s) = 16 THEN Num(s, 15, 16) ELSE 0
       IN IF /\ m \in 1..12
             /\ d >= 1 /\ d <= DaysIn(y, m)
             /\ hh < 24 /\ mi < 60
          THEN Timestamp(y, m, d, hh, mi)
          ELSE NaT

\* pd.to_datetime(date) of a datetime.date: midnight of that day.
DateToDatetime(dt) == Timestamp(dt.y, dt.m, dt.d, 0, 0)

\* Position of a timestamp on the time line, in minutes.
TsOrd(t) == (((t.y * 12 + (t.m - 1)) * 31 + (t.d - 1)) * 24 + t.hh) * 60 + t.mi

\* datetime.date comparison StartDate > EndDate.
DateOrd(dt) == (dt.y * 12 + (dt.m - 1)) * 31 + (dt.d - 1)

\* Series.dt.strftime('%Y-%m') of one timestamp: the text "YYYY-MM".
StrftimeYm(t) ==
  LET Dig(n) == DigitChar[(n % 10) + 1]
  IN << Dig(t.y \div 1000), Dig(t.y \div 100), Dig(t.y \div 10), Dig(t.y),
        "-", Dig(t.m \div 10), Dig(t.m) >>

\* String order of two texts (the order an ordinal axis sorts by).
RECURSIVE TextLess(_, _)
TextLess(a, b) ==
  IF Len(b) = 0 THEN FALSE
  ELSE IF Len(a) = 0 THEN TRUE
  ELSE IF CharCode(Head(a)) # CharCode(Head(b))
       THEN CharCode(Head(a)) < CharCode(Head(b))
       ELSE TextLess(Tail(a), Tail(b))

----------------------------------------------------------------------------
(* Tables                                                                  *)

RequiredCols ==
  {"Total", "Transaction_Type", "Type", "Country", "Source", "Day",
   "Transaction_Notes"}

OptionalColSets ==
  {{}, {"Success"}, {"Transaction_ID", "Auth_code"},
   {"Success", "Transaction_ID", "Auth_code"}}

Table(cols, rows) == [cols |-> cols, rows |-> rows]

NoTable == Table({}, <<>>)

Restrict(r, cols) == [c \in cols |-> r[c]]

MapRows(rows, F(_)) == [i \in 1..Len(rows) |-> F(rows[i])]

RECURSIVE SumTotal(_)
SumTotal(rows) ==
  IF rows = <<>> THEN 0 ELSE Head(rows).Total + SumTotal(Tail(rows))

RECURSIVE Gcd(_, _)
Gcd(a, b) == IF b = 0 THEN a ELSE Gcd(b, a % b)

\* An exact quotient num/den (den > 0, num >= 0) in lowest terms.
Fraction(num, den) ==
  LET g == Gcd(num, den) IN [num |-> num \div g, den |-> den \div g]

\* num/den rounded to the nearest integer, a tie going to the even one: what
\* a fixed-point format specification (".2f", ".1f") does to the scaled value.
RoundHalfEven(num, den) ==
  LET q == num \div den
      r == num % den
  IN IF 2 * r < den THEN q
     ELSE IF 2 * r > den THEN q + 1
     ELSE IF q % 2 = 0 THEN q ELSE q + 1

----------------------------------------------------------------------------
(* Uploaded files                                                          *)

D_Jan15     == <<"2", "0", "2", "4", "-", "0", "1", "-", "1", "5">>
D_Feb10     == <<"2", "0", "2", "4", "-", "0", "2", "-", "1", "0">>
D_Feb30     == <<"2", "0", "2", "4", "-", "0", "2", "-", "3", "0">>
D_Jan15Noon == <<"2", "0", "2", "4", "-", "0", "1", "-", "1", "5", " ",
                 "1", "3", ":", "4", "5">>

NaN == "NaN"

Row(id, total, day, success, type, method, source, country, notes) ==
  [Transaction_ID |-> id, Auth_code |-> id, Total |-> total, Day |-> day,
   Success |-> success, Type |-> type, Transaction_Type |-> method,
   Source |-> source, Country |-> country, Transaction_Notes |-> notes]

\* The rows a file is made of: a plain one in each of two months, a failed
\* one, one whose Day is no date, one whose Day carries a time of day.
RowPool ==
  { Row("T1", 100, D_Jan15,     1, "Sale",   "Card", "Web", "US", NaN),
    Row("T2", 200, D_Feb10,     1, "Refund", "Card", "Web", "IN", "gift"),
    Row("T3", 100, D_Feb10,     0, "Sale",   "Bank", "App", "US", NaN),
    Row("T4", 200, D_Feb30,     1, "Sale",   "Card", "Web", "US", "late"),
    Row("T5", 200, D_Jan15Noon, 1, "Refund", "Card", "Web", "US", NaN) }

\* Row lists of at most MaxRows rows, no row repeated.
RECURSIVE RowLists(_)
RowLists(n) ==
  IF n = 0 THEN {<<>>}
  ELSE LET shorter == RowLists(n - 1)
       IN shorter \cup
          { Append(s, r) : s \in {t \in shorter : Len(t) = n - 1},
                           r \in RowPool }

NoRepeat(s) == \A i, j \in 1..Len(s) : i # j => s[i] # s[j]

\* What the uploader can hold: nothing, bytes read_csv cannot decode, or a
\* CSV with the required columns and some of the optional ones.
NoFile == [kind |-> "none", table |-> NoTable]

Undecodable == [kind |-> "undecodable", table |-> NoTable]

CsvFiles ==
  { [kind |-> "csv",
     table |-> Table(RequiredCols \cup opt,
                     [i \in 1..Len(s) |-> Restrict(s[i], RequiredCols \cup opt)])] :
      s \in {t \in RowLists(MaxRows) : NoRepeat(t)}, opt \in OptionalColSets }

Files == {NoFile, Undecodable} \cup CsvFiles

NoDate == [y |-> 0, m |-> 0, d |-> 0]

\* The days the two date pickers are set to.
DateChoices == { [y |-> 2024, m |-> 1, d |-> 15], [y |-> 2024, m |-> 2, d |-> 10] }

----------------------------------------------------------------------------
(* State                                                                   *)

VARIABLES
  df_file,      \* what the file uploader holds
  pc,           \* the statement the current run of the script is at
  raw,          \* the DataFrame object read_csv made (line 43)
  filters,      \* the four selectbox values
  StartDate,    \* the two date inputs
  EndDate,
  df,           \* the cleaned record set bound at line 98
  df_filtered,  \* the filtered view bound at line 119
  metrics,      \* the metric row of this run
  charts,       \* the data behind the four tabs and the detail table
  message,      \* the warning or error the run halted with
  fault,        \* the exception the run died of
  cache,        \* st.cache_data's entries for process_data
  firstOut,     \* history: the outcome of the first process_data call
  lastCall      \* history: how the call at line 98 was served: "first" (the
                \* body ran, for the first time on this upload), "hit" (from
                \* the cache), "again" (the body ran once more)

vars ==
  << df_file, pc, raw, filters, StartDate, EndDate, df, df_filtered, metrics,
     charts, message, fault, cache, firstOut, lastCall >>

FilterCols == <<"Type", "Transaction_Type", "Source", "Country">>

AllFilters ==
  [Type |-> "All", Transaction_Type |-> "All", Source |-> "All", Country |-> "All"]

----------------------------------------------------------------------------
(* process_data                                                            *)

drop_columns == {"Transaction_ID", "Auth_code"}

CleanCols == {"Total", "Transaction_Type", "Type", "Country", "Source", "Day"}

\* df.drop(columns=[...], inplace=True): the caller's object loses the columns.
DropInPlace(t) ==
  LET keep == t.cols \ drop_columns
  IN Table(keep, MapRows(t.rows, LAMBDA r : Restrict(r, keep)))

\* df[df.get('Success', 0) == 1].  With the column the mask is a boolean
\* Series and selects rows; without it df.get returns 0, the mask is the
\* scalar False, and df[False] looks up a column named False: KeyError.
SuccessRows(t) ==
  IF "Success" \in t.cols
  THEN [fault |-> "none",
        table |-> Table(t.cols, SelectSeq(t.rows, LAMBDA r : r.Success = 1))]
  ELSE [fault |-> "KeyError", table |-> NoTable]

\* df['Transaction_Notes'].fillna("N/A", inplace=True)
FillNotes(t) ==
  Table(t.cols,
        MapRows(t.rows, LAMBDA r :
          [r EXCEPT !.Transaction_Notes = IF @ = NaN THEN "N/A" ELSE @]))

\* df['Day'] = pd.to_datetime(df['Day'], errors='coerce')
CoerceDay(t) ==
  Table(t.cols, MapRows(t.rows, LAMBDA r : [r EXCEPT !.Day = ToDatetime(@)]))

\* df.dropna(subset=['Day'], inplace=True)
DropNaDay(t) == Table(t.cols, SelectSeq(t.rows, LAMBDA r : ~r.Day.nat))

\* df[['Total', 'Transaction_Type', 'Type', 'Country', 'Source', 'Day']]
Project(t) ==
  Table(CleanCols, MapRows(t.rows, LAMBDA r : Restrict(r, CleanCols)))

\* df['int_created_date'] = df['Day'].dt.strftime('%Y-%m')
AddPeriodKey(t) ==
  LET cols == t.cols \cup {"int_created_date"}
  IN Table(cols,
           MapRows(t.rows, LAMBDA r :
             [c \in cols |-> IF c = "int_created_date"
                             THEN StrftimeYm(r.Day) ELSE r[c]]))

\* Mutant of process_data: the body also reads the sidebar's date inputs, which
\* are no argument of the cached function.
process_data_ambient(t) ==
  LET dropped == DropInPlace(t)
      succ    == SuccessRows(dropped)
      clean   == AddPeriodKey(Project(DropNaDay(CoerceDay(FillNotes(succ.table)))))
  IN IF succ.fault # "none"
     THEN [fault |-> succ.fault, out |-> NoTable, arg |-> dropped]
     ELSE [fault |-> "none",
           out   |-> Table(clean.cols,
                       SelectSeq(clean.rows, LAMBDA r :
                         /\ TsOrd(r.Day) >= TsOrd(DateToDatetime(StartDate))
                         /\ TsOrd(r.Day) <= TsOrd(DateToDatetime(EndDate)))),
           arg   |-> dropped]

\* The body of process_data on the caller's table t: the exception it dies
\* of or the table it returns, and the caller's table as it leaves it.
process_data(t) ==
  LET dropped == DropInPlace(t)
      succ    == SuccessRows(dropped)
  IN IF succ.fault # "none"
     THEN [fault |-> succ.fault, out |-> NoTable, arg |-> dropped]
     ELSE [fault |-> "none",
           out   |-> AddPeriodKey(Project(DropNaDay(CoerceDay(FillNotes(succ.table))))),
           arg   |-> dropped]

\* st.cache_data keys an entry on the hash of the argument's content.
CacheKey(t) == t

----------------------------------------------------------------------------
(* apply_filters                                                           *)

\* One turn of the loop over filters.items().
FilterStep(t, col, value) ==
  IF value # "All"
  THEN Table(t.cols, SelectSeq(t.rows, LAMBDA r : r[col] = value))
  ELSE t

RECURSIVE FilterLoop(_, _, _)
FilterLoop(t, f, i) ==
  IF i > Len(FilterCols) THEN t
  ELSE FilterLoop(FilterStep(t, FilterCols[i], f[FilterCols[i]]), f, i + 1)

\* (df['Day'] >= pd.to_datetime(start_date)) & (df['Day'] <= pd.to_datetime(end_date))
InDateRange(r, start_date, end_date) ==
  /\ TsOrd(r.Day) >= TsOrd(DateToDatetime(start_date))
  /\ TsOrd(r.Day) <= TsOrd(DateToDatetime(end_date))

apply_filters(t, f, start_date, end_date) ==
  LET byField == FilterLoop(t, f, 1)
  IN Table(byField.cols,
           SelectSeq(byField.rows, LAMBDA r : InDateRange(r, start_date, end_date)))

----------------------------------------------------------------------------
(* The metric row                                                          *)

Shown(kind, val) == [kind |-> kind, val |-> val]

NoMetrics ==
  [count |-> Shown("none", 0), volume |-> Shown("none", 0),
   average |-> Shown("none", 0), rate |-> Shown("none", 0)]

\* f"{len(df_filtered):,}"
TotalTransactions(view) == Shown("int", Len(view.rows))

\* f"${df_filtered['Total'].sum():,.2f}", in cents.
TotalVolume(view) == Shown("cents", 100 * SumTotal(view.rows))

\* f"${df_filtered['Total'].mean():,.2f}", in cents.  The mean of an empty
\* column is NaN, which the format shows as "$nan".
AverageTransaction(view) ==
  IF Len(view.rows) = 0 THEN Shown("nan", 0)
  ELSE Shown("cents", RoundHalfEven(100 * SumTotal(view.rows), Len(view.rows)))

\* Mutant of SuccessRate: the share is taken of the filtered view itself.
SuccessRateOfView(view, cleaned) ==
  IF Len(view.rows) = 0 THEN Shown("ZeroDivisionError", 0)
  ELSE Shown("tenths", RoundHalfEven(1000 * Len(view.rows), Len(view.rows)))

\* f"{(len(df_filtered)/len(df)*100):.1f}%", in tenths of a percent.  The
\* division is Python's: a zero divisor raises ZeroDivisionError.
SuccessRate(view, cleaned) ==
  IF Len(cleaned.rows) = 0 THEN Shown("ZeroDivisionError", 0)
  ELSE Shown("tenths", RoundHalfEven(1000 * Len(view.rows), Len(cleaned.rows)))

\* The four st.metric calls in order; the row stops at the one that raises.
KeyMetrics(view, cleaned) ==
  [count   |-> TotalTransactions(view),
   volume  |-> TotalVolume(view),
   average |-> AverageTransaction(view),
   rate    |-> SuccessRate(view, cleaned)]

----------------------------------------------------------------------------
(* The chart tabs and the detail table                                     *)

RowsWith(view, col, value) == SelectSeq(view.rows, LAMBDA r : r[col] = value)

Values(view, col) == {view.rows[i][col] : i \in 1..Len(view.rows)}

\* The texts of S in ascending string order.
RECURSIVE SortTexts(_)
SortTexts(S) ==
  IF S = {} THEN <<>>
  ELSE LET least == CHOOSE a \in S : \A b \in S : ~TextLess(b, a)
       IN <<least>> \o SortTexts(S \ {least})

\* Tab 1: x = 'Total:Q', y = 'count():Q'.
hist(view) ==
  { [Total |-> v, count |-> Len(RowsWith(view, "Total", v))] :
      v \in Values(view, "Total") }

\* Mutant of monthly_trend: tab 3's aggregate, sum(Total), in tab 2.
monthly_trend_sum(view) ==
  LET keys == SortTexts(Values(view, "int_created_date"))
  IN [i \in 1..Len(keys) |->
        LET group == RowsWith(view, "int_created_date", keys[i])
        IN [key |-> keys[i], mean |-> Fraction(SumTotal(group), 1)]]

\* Tab 2: x = 'int_created_date:O' (an ordinal axis, in ascending order),
\* y = 'mean(Total):Q'.
monthly_trend(view) ==
  LET keys == SortTexts(Values(view, "int_created_date"))
  IN [i \in 1..Len(keys) |->
        LET group == RowsWith(view, "int_created_date", keys[i])
        IN [key |-> keys[i], mean |-> Fraction(SumTotal(group), Len(group))]]

\* Tab 3: x = 'int_created_date:O', y = 'sum(Total):Q', colour = 'Type:N'.
volume_chart(view) ==
  { [key |-> k, Type |-> ty,
     sum |-> SumTotal(SelectSeq(view.rows,
               LAMBDA r : r.int_created_date = k /\ r.Type = ty))] :
      <<k, ty>> \in { <<view.rows[i].int_created_date, view.rows[i].Type>> :
                        i \in 1..Len(view.rows) } }

\* Tab 4: theta = 'count():Q', colour = 'Type:N'.
payment_types(view) ==
  { [Type |-> ty, count |-> Len(RowsWith(view, "Type", ty))] :
      ty \in Values(view, "Type") }

\* The rows of the detail table, int_created_date dropped (shown by Day
\* descending).
DetailTable(view) ==
  { Restrict(view.rows[i], view.cols \ {"int_created_date"}) :
      i \in 1..Len(view.rows) }

NoCharts ==
  [drawn |-> FALSE, hist |-> {}, monthly_trend |-> <<>>, volume_chart |-> {},
   payment_types |-> {}, detail |-> {}]

Charts(view) ==
  [drawn |-> TRUE, hist |-> hist(view),
   monthly_trend |-> monthly_trend(view), volume_chart |-> volume_chart(view),
   payment_types |-> payment_types(view), detail |-> DetailTable(view)]

----------------------------------------------------------------------------
(* The script                                                              *)

NoOutcome == [fault |-> "unset", out |-> NoTable]

Init ==
  /\ df_file \in Files
  /\ pc = "upload"
  /\ raw = NoTable
  /\ filters = AllFilters
  /\ StartDate = NoDate
  /\ EndDate = NoDate
  /\ df = NoTable
  /\ df_filtered = NoTable
  /\ metrics = NoMetrics
  /\ charts = NoCharts
  /\ message = "none"
  /\ fault = "none"
  /\ cache = {}
  /\ firstOut = NoOutcome
  /\ lastCall = "none"

\* st.stop() with a message on the page.
Stop(text) ==
  /\ pc' = "stopped"
  /\ message' = text

\* Lines 37-40: no file in the uploader halts the run.
FileUploader ==
  /\ pc = "upload"
  /\ IF df_file.kind = "none"
     THEN Stop("Please upload a CSV file to proceed.")
     ELSE pc' = "read" /\ UNCHANGED message
  /\ UNCHANGED << df_file, raw, filters, StartDate, EndDate, df, df_filtered,
                  metrics, charts, fault, cache, firstOut, lastCall >>

\* Lines 42-46: read_csv, any exception halting the run.
ReadCsv ==
  /\ pc = "read"
  /\ IF df_file.kind = "undecodable"
     THEN Stop("Error reading CSV file") /\ UNCHANGED raw
     ELSE pc' = "widgets" /\ raw' = df_file.table /\ UNCHANGED message
  /\ UNCHANGED << df_file, filters, StartDate, EndDate, df, df_filtered,
                  metrics, charts, fault, cache, firstOut, lastCall >>

\* ['All'] + sorted(df[col].unique().tolist())
Options(t, col) == {"All"} \cup Values(t, col)

\* Lines 49-73: the four selectboxes and the two date inputs, set by the user.
Sidebar ==
  /\ pc = "widgets"
  /\ \E ty \in Options(raw, "Type"), tt \in Options(raw, "Transaction_Type"),
        so \in Options(raw, "Source"), co \in Options(raw, "Country") :
        filters' = [Type |-> ty, Transaction_Type |-> tt, Source |-> so,
                    Country |-> co]
  /\ StartDate' \in DateChoices
  /\ EndDate' \in DateChoices
  /\ pc' = "dateguard"
  /\ UNCHANGED << df_file, raw, df, df_filtered, metrics, charts, message,
                  fault, cache, firstOut, lastCall >>

\* Mutant of DateRangeInvalid: the comparison the wrong way round.
DateRangeSwapped(start_date, end_date) == DateOrd(start_date) < DateOrd(end_date)

\* if StartDate > EndDate
DateRangeInvalid(start_date, end_date) == DateOrd(start_date) > DateOrd(end_date)

\* Lines 75-77.
DateGuard ==
  /\ pc = "dateguard"
  /\ IF DateRangeInvalid(StartDate, EndDate)
     THEN Stop("Error: Start date must be before end date")
     ELSE pc' = "clean" /\ UNCHANGED message
  /\ UNCHANGED << df_file, raw, filters, StartDate, EndDate, df, df_filtered,
                  metrics, charts, fault, cache, firstOut, lastCall >>

Cached(key) == {e \in cache : e.key = key}

\* Line 98, df = process_data(df), through @st.cache_data: an entry for the
\* argument's content is returned without running the body; otherwise the
\* body runs on the caller's object and its return value is stored.  An
\* exception is not stored and ends the run.
CallProcessData ==
  /\ pc = "clean"
  /\ IF Cached(CacheKey(raw)) # {}
     THEN LET e == CHOOSE x \in Cached(CacheKey(raw)) : TRUE
          IN /\ df' = e.value
             /\ pc' = "filter"
             /\ lastCall' = "hit"
             /\ UNCHANGED << raw, cache, fault, firstOut >>
     ELSE LET r == process_data(raw)
          IN /\ raw' = r.arg
             /\ lastCall' = IF firstOut = NoOutcome THEN "first" ELSE "again"
             /\ firstOut' = IF firstOut = NoOutcome
                            THEN [fault |-> r.fault, out |-> r.out]
                            ELSE firstOut
             /\ IF r.fault # "none"
                THEN /\ pc' = "crashed"
                     /\ fault' = r.fault
                     /\ UNCHANGED << df, cache >>
                ELSE /\ pc' = "filter"
                     /\ df' = r.out
                     /\ cache' = cache \cup {[key |-> CacheKey(raw), value |-> r.out]}
                     /\ UNCHANGED fault
  /\ UNCHANGED << df_file, filters, StartDate, EndDate, df_filtered, metrics,
                  charts, message >>

\* Line 119.  The object read_csv made is no longer bound to any name.
CallApplyFilters ==
  /\ pc = "filter"
  /\ df_filtered' = apply_filters(df, filters, StartDate, EndDate)
  /\ raw' = NoTable
  /\ lastCall' = "none"
  /\ pc' = "metrics"
  /\ UNCHANGED << df_file, filters, StartDate, EndDate, df, metrics, charts,
                  message, fault, cache, firstOut >>

\* Lines 122-130.
DisplayKeyMetrics ==
  /\ pc = "metrics"
  /\ metrics' = KeyMetrics(df_filtered, df)
  /\ IF metrics'.rate.kind = "ZeroDivisionError"
     THEN pc' = "crashed" /\ fault' = "ZeroDivisionError"
     ELSE pc' = "charts" /\ UNCHANGED fault
  /\ UNCHANGED << df_file, raw, filters, StartDate, EndDate, df, df_filtered,
                  charts, message, cache, firstOut, lastCall >>

\* Lines 165-221.
DrawCharts ==
  /\ pc = "charts"
  /\ charts' = Charts(df_filtered)
  /\ pc' = "done"
  /\ UNCHANGED << df_file, raw, filters, StartDate, EndDate, df, df_filtered,
                  metrics, message, fault, cache, firstOut, lastCall >>

\* Any interaction re-executes the script from the top on the same upload;
\* only the cache outlives the run.
Rerun ==
  /\ pc \in {"done", "stopped", "crashed"}
  /\ pc' = "upload"
  /\ raw' = NoTable
  /\ filters' = AllFilters
  /\ StartDate' = NoDate
  /\ EndDate' = NoDate
  /\ df' = NoTable
  /\ df_filtered' = NoTable
  /\ metrics' = NoMetrics
  /\ charts' = NoCharts
  /\ message' = "none"
  /\ fault' = "none"
  /\ lastCall' = "none"
  /\ UNCHANGED << df_file, cache, firstOut >>

\* The cache is emptied between runs ("Clear cache" in the app menu, or a
\* restart of the server).
ClearCache ==
  /\ pc = "upload"
  /\ cache # {}
  /\ cache' = {}
  /\ UNCHANGED << df_file, pc, raw, filters, StartDate, EndDate, df, df_filtered,
                  metrics, charts, message, fault, firstOut, lastCall >>

Next ==
  \/ FileUploader
  \/ ReadCsv
  \/ Sidebar
  \/ DateGuard
  \/ CallProcessData
  \/ CallApplyFilters
  \/ DisplayKeyMetrics
  \/ DrawCharts
  \/ Rerun
  \/ ClearCache

Spec == Init /\ [][Next]_vars

----------------------------------------------------------------------------
(* Properties                                                              *)

\* The uploaded table, and the stages of a run.
Uploaded == df_file.table

HasSuccess == "Success" \in Uploaded.cols

CleaningReturned == lastCall # "none" /\ pc = "filter"

Filtered ==
  pc \in {"metrics", "charts", "done"} \/ (pc = "crashed" /\ lastCall = "none")

MetricsComputed == metrics # NoMetrics

\* Day of a cleaned record as a calendar date.
RecordDate(r) == [y |-> r.Day.y, m |-> r.Day.m, d |-> r.Day.d]

Parseable(r) == ~ToDatetime(r.Day).nat

\* Indices of the uploaded rows cleaning is to keep.
KeptIdx ==
  {i \in 1..Len(Uploaded.rows) :
     /\ Parseable(Uploaded.rows[i])
     /\ HasSuccess => Uploaded.rows[i].Success = 1}

\* An uploaded row as a cleaned record.
AsCleaned(r) ==
  [c \in CleanCols \cup {"int_created_date"} |->
     IF c = "Day" THEN ToDatetime(r.Day)
     ELSE IF c = "int_created_date" THEN StrftimeYm(ToDatetime(r.Day))
     ELSE r[c]]

\* C1: for a table without a Success column process_data completes without
\* error and filters nothing on success: every row with a parseable Day is
\* in the cleaned set.
C1_NoSuccessColumnMeansNoFilter ==
  (df_file.kind = "csv" /\ ~HasSuccess /\ lastCall # "none") =>
     /\ CleaningReturned
     /\ fault = "none"
     /\ Len(df.rows) = Cardinality(KeptIdx)
     /\ \A i \in KeptIdx :
          \E j \in 1..Len(df.rows) : df.rows[j] = AsCleaned(Uploaded.rows[i])

\* C2: whenever the filtered view is empty the four metrics are computed
\* without a fault (no division by zero), the average is a zero or an
\* undefined-safe value (the NaN display is counted as one), and every
\* aggregate drawn is empty.
C2_EmptyViewIsSafe ==
  (Filtered /\ pc # "metrics" /\ Len(df_filtered.rows) = 0) =>
     /\ fault = "none"
     /\ metrics.count = Shown("int", 0)
     /\ metrics.volume = Shown("cents", 0)
     /\ metrics.average \in {Shown("cents", 0), Shown("nan", 0)}
     /\ metrics.rate.kind = "tenths"
     /\ charts.drawn =>
          /\ charts.hist = {} /\ charts.monthly_trend = <<>>
          /\ charts.volume_chart = {} /\ charts.payment_types = {}

\* A cleaned record meets the criteria: every field whose criterion is not
\* "All" equals it, and the record's date lies in [StartDate, EndDate].
C3_Matches(r) ==
  /\ \A i \in 1..Len(FilterCols) :
       filters[FilterCols[i]] # "All" => r[FilterCols[i]] = filters[FilterCols[i]]
  /\ DateOrd(StartDate) <= DateOrd(RecordDate(r))
  /\ DateOrd(RecordDate(r)) <= DateOrd(EndDate)

\* C3: the filtered view holds exactly the cleaned records that meet every
\* active criterion and whose date is within the inclusive date range; a
\* record occurring on end_date is kept.
C3_FilteredViewIsExactlyTheMatches ==
  Filtered => df_filtered.rows = SelectSeq(df.rows, C3_Matches)

\* C4: the success rate is 100 * (filtered rows) / (cleaned rows), to one
\* decimal; its denominator is the number of uploaded rows cleaning keeps,
\* whatever the filter criteria and the date range are (the division
\* raising when that number is zero).
C4_SuccessRateOverCleanedCount ==
  MetricsComputed =>
     /\ Len(df.rows) = Cardinality(KeptIdx)
     /\ IF Cardinality(KeptIdx) = 0
        THEN metrics.rate.kind = "ZeroDivisionError"
        ELSE /\ metrics.rate.kind = "tenths"
             /\ metrics.rate.val =
                  RoundHalfEven(1000 * Len(df_filtered.rows), Cardinality(KeptIdx))

C4_Witness ==
  /\ pc = "done"
  /\ metrics.rate.kind = "tenths"
  /\ Len(df_filtered.rows) > 0
  /\ Len(df_filtered.rows) < Len(df.rows)
  /\ Len(df.rows) < Len(Uploaded.rows)

\* The three checks of the sidebar, read off the inputs of the run.
C5_ChecksPass ==
  /\ df_file.kind = "csv"
  /\ StartDate # NoDate /\ EndDate # NoDate
  /\ DateOrd(StartDate) <= DateOrd(EndDate)

C5_NothingProduced ==
  /\ df = NoTable /\ df_filtered = NoTable
  /\ metrics = NoMetrics /\ charts = NoCharts
  /\ lastCall = "none"

\* C5: cleaning, filtering and the metrics are reached only when a file was
\* supplied, read_csv decoded it and StartDate <= EndDate; a failed check
\* halts the run at that check with its message, and the run produces no
\* cleaned set, filtered view or metric.
C5_GuardsComeFirst ==
  /\ (pc \in {"clean", "filter", "metrics", "charts", "done", "crashed"}
        \/ ~C5_NothingProduced) => C5_ChecksPass
  /\ pc = "stopped" =>
       /\ C5_NothingProduced
       /\ ~C5_ChecksPass
       /\ message =
            IF df_file.kind = "none" THEN "Please upload a CSV file to proceed."
            ELSE IF df_file.kind = "undecodable" THEN "Error reading CSV file"
            ELSE "Error: Start date must be before end date"
  /\ df_file.kind = "none" => pc \in {"upload", "stopped"}
  /\ df_file.kind = "undecodable" => pc \in {"upload", "read", "stopped"}
  /\ (StartDate # NoDate /\ DateOrd(StartDate) > DateOrd(EndDate)) =>
       pc \in {"dateguard", "stopped"}

C5_Witness ==
  /\ pc = "stopped"
  /\ df_file.kind = "csv"
  /\ Len(Uploaded.rows) > 0
  /\ DateOrd(StartDate) > DateOrd(EndDate)
  /\ message = "Error: Start date must be before end date"

\* C6: with all four criteria "All" and a date range that spans the date of
\* every cleaned record, the filtered view is the whole cleaned set.
C6_WildcardsAndFullRangeKeepAll ==
  (/\ Filtered
   /\ filters = AllFilters
   /\ \A i \in 1..Len(df.rows) :
        /\ DateOrd(StartDate) <= DateOrd(RecordDate(df.rows[i]))
        /\ DateOrd(RecordDate(df.rows[i])) <= DateOrd(EndDate))
  => df_filtered = df

\* C7: for every uploaded table the cleaned set holds only records with
\* Success = 1 (when there is such a column) and a parsed date, and a row
\* whose Day cannot be parsed is left out without any error, the other rows
\* being cleaned as they would be without it.
C7_CleanedRowsAreSuccessfulAndDated ==
  /\ CleaningReturned =>
       /\ \A j \in 1..Len(df.rows) :
            /\ ~df.rows[j].Day.nat
            /\ \E i \in KeptIdx : df.rows[j] = AsCleaned(Uploaded.rows[i])
       /\ Len(df.rows) = Cardinality(KeptIdx)
  /\ (/\ df_file.kind = "csv"
      /\ lastCall # "none"
      /\ \E i \in 1..Len(Uploaded.rows) : ~Parseable(Uploaded.rows[i]))
     => /\ CleaningReturned
        /\ fault = "none"
        /\ \A i \in KeptIdx :
             \E j \in 1..Len(df.rows) : df.rows[j] = AsCleaned(Uploaded.rows[i])

\* C8: every call of process_data on the same upload, served from the cache
\* or by running the body again, has the outcome of the first one: the same
\* rows with the same six fields and the period key.
C8_CleaningIsIdempotent ==
  lastCall # "none" =>
     /\ firstOut = [fault |-> fault, out |-> df]
     /\ fault = "none" => df.cols = CleanCols \cup {"int_created_date"}

C8_Witness ==
  /\ lastCall \in {"hit", "again"}
  /\ pc = "filter"
  /\ Len(df.rows) > 1

\* C9: process_data leaves the table it is passed as it was (no column, no
\* row removed), and apply_filters leaves the cleaned set as it was, the
\* filtered view being a part of it with the same field values.
C9_StagesLeaveTheirInputAlone ==
  /\ CleaningReturned => raw = Uploaded
  /\ (Filtered /\ firstOut # NoOutcome) =>
       /\ df = firstOut.out
       /\ \A j \in 1..Len(df_filtered.rows) :
            \E i \in 1..Len(df.rows) : df_filtered.rows[j] = df.rows[i]

\* The amounts of the records of the view with period key k.
C10_Group(k) ==
  {i \in 1..Len(df_filtered.rows) : df_filtered.rows[i].int_created_date = k}

RECURSIVE C10_Sum(_)
C10_Sum(I) ==
  IF I = {} THEN 0
  ELSE LET i == CHOOSE x \in I : TRUE
       IN df_filtered.rows[i].Total + C10_Sum(I \ {i})

Key_2024_01 == <<"2", "0", "2", "4", "-", "0", "1">>

Key_2024_02 == <<"2", "0", "2", "4", "-", "0", "2">>

\* The scenario's upload: a failed row, 100 on 2024-01-15 and 200 on
\* 2024-02-10, in any order, shown unfiltered over both dates.
C10_Scenario ==
  /\ df_file.kind = "csv"
  /\ HasSuccess
  /\ Len(Uploaded.rows) = 3
  /\ {[Total |-> Uploaded.rows[i].Total, Day |-> Uploaded.rows[i].Day,
       Success |-> Uploaded.rows[i].Success] : i \in 1..3}
       = {[Total |-> 100, Day |-> D_Feb10, Success |-> 0],
          [Total |-> 100, Day |-> D_Jan15, Success |-> 1],
          [Total |-> 200, Day |-> D_Feb10, Success |-> 1]}
  /\ filters = AllFilters
  /\ StartDate = [y |-> 2024, m |-> 1, d |-> 15]
  /\ EndDate = [y |-> 2024, m |-> 2, d |-> 10]

\* C10: the time series has one entry per period key (YYYY-MM of the record
\* date) of the filtered view, holding the mean amount of that key's records,
\* in ascending key order; the three-row scenario gives 2 cleaned rows, the
\* series [(2024-01, 100), (2024-02, 200)] and a total volume of 300.
C10_MonthlyMeansInKeyOrder ==
  charts.drawn =>
     LET ts == charts.monthly_trend
     IN /\ \A i \in 1..Len(df_filtered.rows) :
             LET r == df_filtered.rows[i]
             IN /\ Len(r.int_created_date) = 7
                /\ r.int_created_date[5] = "-"
                /\ Num(r.int_created_date, 1, 4) = r.Day.y
                /\ Num(r.int_created_date, 6, 7) = r.Day.m
        /\ {ts[i].key : i \in 1..Len(ts)} = Values(df_filtered, "int_created_date")
        /\ Len(ts) = Cardinality(Values(df_filtered, "int_created_date"))
        /\ \A i \in 1..Len(ts) :
             ts[i].mean.num * Cardinality(C10_Group(ts[i].key))
               = ts[i].mean.den * C10_Sum(C10_Group(ts[i].key))
        /\ \A i, j \in 1..Len(ts) : i < j => TextLess(ts[i].key, ts[j].key)
        /\ C10_Scenario =>
             /\ Len(df.rows) = 2
             /\ ts = << [key |-> Key_2024_01, mean |-> [num |-> 100, den |-> 1]],
                        [key |-> Key_2024_02, mean |-> [num |-> 200, den |-> 1]] >>
             /\ metrics.volume = Shown("cents", 30000)

C10_Witness ==
  /\ pc = "done"
  /\ C10_Scenario
  /\ Uploaded.rows[1].Day = D_Feb10
  /\ Uploaded.rows[3].Day = D_Jan15
  /\ Len(charts.monthly_trend) = 2

====
